---- MODULE Spec2Model ----
(***************************************************************************)
(* Staged processing pipeline of base_domain: BaseDomain stages chained by *)
(* callbacks, the ZMQManager receive loop, the Monitor and the             *)
(* Orchestrator that wires them.                                           *)
(*                                                                         *)
(* Spec      the Orchestrator-wired pipeline fed by the receive loop.      *)
(* SpecUnit  one stage with AsyncMock callbacks, driven as                 *)
(*           BaseDomainTest drives it.                                     *)
(*                                                                         *)
(* All coroutines run on one event loop.  A coroutine gives up control     *)
(* only where it awaits something that is not ready; in this code that is  *)
(* socket.recv() alone.  A traversal is therefore a chain of steps of the  *)
(* one running task, kept here as an explicit call stack, and the other    *)
(* callbacks of the event loop run only while the stack is empty.          *)
(*                                                                         *)
(* _execute is the stage's own logic, abstract in BaseDomain.  Besides the *)
(* four concrete bodies, the model lets one stage run the replacement the  *)
(* test harness installs (failing_execute, which raises ValueError).       *)
(*                                                                         *)
(* time() is read as a clock that is not set back during a run.            *)
(***************************************************************************)
EXTENDS Integers, Sequences, FiniteSets, TLC

\* ---------------------------------------------------------------- bounds

\* messages the publisher sends in one run
MaxMessages == 2
\* the wall clock is followed up to this reading; _execute takes 0 or 1 tick
MaxClock == 2
\* registrations the unit harness makes in all (over the three lists)
MaxRegistrations == 3
\* calls of handle the unit harness makes on its stage
MaxHandleCalls == 1
\* calls of Orchestrator.shutdown in one run
MaxShutdowns == 2
\* messages the publisher sends in a run that follows the stages' life cycle
MaxLifecycleMessages == 1
\* threads that call a singleton's accessor at the same time
MaxThreads == 2
\* success events fed to the Monitor for one key when its window is filled
MaxInsertions == 1001
\* success events fed for a second key meanwhile
MaxOtherInsertions == 2
\* events fed to a Monitor called directly: success, error, completion
MaxSuccessEvents == 3
MaxErrorEvents == 2
MaxCompletions == 5
MaxSnapshotCompletions == 10
\* a fed success event lasts 0..MaxDuration ticks
MaxDuration == 1

\* ---------------------------------------------------------------- values

\* Orchestrator.domains holds one instance of each class; a stage is named
\* by the position of its class in that list.
ZMQ == 1
PROCESSOR == 2
METRICS == 3
EXPORTER == 4
Stages == {ZMQ, PROCESSOR, METRICS, EXPORTER}

ClassName == <<"ZMQManager", "ProcessorManager", "MetricsManager", "ExporterManager">>

\* The stage lists the wiring code is run on: the list Orchestrator.__init__
\* builds, and a two-stage list (ingress, exporter) for what is said of a
\* two-stage pipeline; the wiring code does not depend on the length.
Pipelines == {<<ZMQ, PROCESSOR, METRICS, EXPORTER>>, <<ZMQ, EXPORTER>>}

Docs == {"A", "B"}

\* A value passed between stages.  tag: "bytes" (a payload off the socket),
\* "doc" (a decoded document), "metrics" ({"some_metric": doc}), "bool",
\* "none".  enc tells what the bytes hold.
Val(tag, enc, v) == [tag |-> tag, enc |-> enc, v |-> v]
None == Val("none", "-", "-")
True == Val("bool", "-", "True")
Payloads ==
    {Val("bytes", "json", d) : d \in Docs} \cup {Val("bytes", "malformed", "-")}
Malformed == Val("bytes", "malformed", "-")

NoExc == "-"

\* ------------------------------------------------------------- callbacks

\* A registered callback: a stage's bound handle, one of the Monitor's three
\* bound methods, or an AsyncMock of the test harness.
HandleOf(s) == [kind |-> "handle", id |-> s]
MonitorOnSuccess == [kind |-> "on_success", id |-> 0]
MonitorOnError == [kind |-> "on_error", id |-> 0]
MonitorOnPipelineComplete == [kind |-> "on_pipeline_complete", id |-> 0]
Mock(m) == [kind |-> "mock", id |-> m]
Mocks == {1, 2}
\* the mocks a test may give a side_effect (an exception raised when awaited)
RaisingMocks == {2}

VARIABLES
    domains,            \* Orchestrator.domains
    callbacks,          \* BaseDomain._callbacks, per stage
    success_callbacks,  \* BaseDomain._success_callbacks, per stage
    error_callbacks,    \* BaseDomain._error_callbacks, per stage
    failing_execute,    \* stages whose _execute is replaced by failing_execute
    side_effect,        \* mocks set to raise when awaited
    failing_initialize, \* stages whose initialize() raises
    failing_shutdown,   \* stages whose shutdown() raises
    init_calls,         \* the stages initialize() was invoked on, in order
    shutdown_calls,     \* the stages shutdown() was invoked on, in order
    running,            \* the running attribute, per stage
    socket,             \* ZMQManager.socket: "none", "open", "bound", "closed"
    task,               \* ZMQManager._task, the message_loop coroutine
    queue,              \* payloads the socket has buffered, oldest first
    published,          \* every payload that reached the socket, in order
    inbox,              \* the payload recv() is about to return
    stack,              \* frames of the handle calls in progress
    monitor,            \* the Monitor's fields
    exported_data,      \* ExporterManager.exported_data
    now,                \* reading of time()
    orch,               \* "constructed", "initialized", "aborted"
    shutdowns,          \* calls of Orchestrator.shutdown so far
    received,           \* messages recv() has returned so far
    caller,             \* what the harness saw of its handle calls
    trace,              \* every _execute and callback invocation, in order
    app,                \* the Application: its running flag, where main is
    holder,             \* the singleton holder: _symbol_map or cls._instance
    lock,               \* the threading.Lock: 0 when free, else its owner
    heap,               \* the instances constructed so far, by identity
    threads             \* per thread: its call, where it is, its locals

vars ==
    <<domains, callbacks, success_callbacks, error_callbacks, failing_execute,
      side_effect, failing_initialize, failing_shutdown, init_calls,
      shutdown_calls, running, socket, task, queue, published, inbox, stack,
      monitor, exported_data, now, orch, shutdowns, received, caller, trace,
      app, holder, lock, heap, threads>>

\* ---------------------------------------------------------------- Monitor

\* defaultdict read: the default when the key is absent
Get(f, k, default) == IF k \in DOMAIN f THEN f[k] ELSE default

\* defaultdict write
Put(f, k, v) == [x \in DOMAIN f \cup {k} |-> IF x = k THEN v ELSE f[x]]

\* the sum of f over keys
RECURSIVE SumOver(_, _)
SumOver(f, keys) ==
    IF keys = {} THEN 0
    ELSE LET k == CHOOSE x \in keys : TRUE
         IN f[k] + SumOver(f, keys \ {k})

DurationWindow == 1000

\* Faulty variant of DequeAppend: a list, which keeps every sample.
DequeAppendUnbounded(q, x) == Append(q, x)

\* Faulty variant of DequeAppend: a full window refuses the new sample.
DequeAppendKeepOldest(q, x) ==
    IF Len(q) < DurationWindow THEN Append(q, x) ELSE q

\* deque(maxlen=1000).append
DequeAppend(q, x) ==
    IF Len(q) < DurationWindow THEN Append(q, x) ELSE Append(Tail(q), x)

MonitorInit ==
    [success_counts |-> << >>,
     success_durations |-> << >>,
     error_counts |-> << >>,
     error_types |-> << >>,
     count |-> 0,
     completed_pipelines |-> 0,
     not_completed_pipelines |-> 0,
     logged |-> 0]

\* Faulty variant of EventKey: the operation is left out of the key.
EventKeyDomainOnly(event) == event.domain

\* key = f"{event['domain']}.{event['operation']}"
EventKey(event) == event.domain \o "." \o event.operation

Monitor_on_success(m, event) ==
    LET key == EventKey(event) IN
    [m EXCEPT
        !.success_counts = Put(@, key, Get(@, key, 0) + 1),
        !.success_durations =
            Put(@, key, DequeAppend(Get(@, key, << >>), event.duration))]

\* Faulty variant of Monitor_on_error: the count of the error kind is set to
\* one instead of raised by one.
Monitor_on_error_kind_reset(m, event) ==
    LET key == EventKey(event)
        kinds == Get(m.error_types, key, << >>)
    IN
    [m EXCEPT
        !.error_counts = Put(@, key, Get(@, key, 0) + 1),
        !.error_types = Put(@, key, Put(kinds, event.error_type, 1))]

Monitor_on_error(m, event) ==
    LET key == EventKey(event)
        kinds == Get(m.error_types, key, << >>)
    IN
    [m EXCEPT
        !.error_counts = Put(@, key, Get(@, key, 0) + 1),
        !.error_types =
            Put(@, key, Put(kinds, event.error_type,
                            Get(kinds, event.error_type, 0) + 1))]

\* Python truth of a value handed to on_pipeline_complete
Truthy(v) == IF v.tag = "bool" THEN v.v = "True" ELSE v.tag # "none"

LogEvery == 5

\* Faulty variant of on_pipeline_complete: a falsy result is counted in the
\* total alone.
on_pipeline_complete_truthy_only(m, result) ==
    LET counted ==
            IF Truthy(result)
            THEN [m EXCEPT !.count = @ + 1, !.completed_pipelines = @ + 1]
            ELSE [m EXCEPT !.count = @ + 1]
    IN
    IF counted.count % LogEvery = 0
    THEN [counted EXCEPT !.logged = @ + 1]
    ELSE counted

\* Faulty variant of on_pipeline_complete: the snapshot follows the count of
\* completed pipelines instead of the total.
on_pipeline_complete_log_completed(m, result) ==
    LET counted ==
            IF Truthy(result)
            THEN [m EXCEPT !.count = @ + 1, !.completed_pipelines = @ + 1]
            ELSE [m EXCEPT !.count = @ + 1, !.not_completed_pipelines = @ + 1]
    IN
    IF counted.completed_pipelines % LogEvery = 0
    THEN [counted EXCEPT !.logged = @ + 1]
    ELSE counted

on_pipeline_complete(m, result) ==
    LET counted ==
            IF Truthy(result)
            THEN [m EXCEPT !.count = @ + 1, !.completed_pipelines = @ + 1]
            ELSE [m EXCEPT !.count = @ + 1, !.not_completed_pipelines = @ + 1]
    IN
    IF counted.count % LogEvery = 0
    THEN [counted EXCEPT !.logged = @ + 1]
    ELSE counted

\* time() counts seconds; one tick of the model's clock is a millisecond
TicksPerSecond == 1000

\* self.MS
MS == 1000000

\* a number with two decimals is held as its count of hundredths
Hundredths == 100

\* sum(durations)
RECURSIVE Sum(_)
Sum(q) == IF q = << >> THEN 0 ELSE Head(q) + Sum(Tail(q))

\* round(n / d, 0) for n >= 0, d > 0: to the nearest, a tie to the even
RoundHalfEven(n, d) ==
    LET q == n \div d
        r == n % d
    IN IF 2 * r < d THEN q
       ELSE IF 2 * r > d THEN q + 1
       ELSE IF q % 2 = 0 THEN q ELSE q + 1

\* round((sum(durations) / len(durations)) * self.MS, 2), in hundredths;
\* the durations are in ticks
Average(durations) ==
    RoundHalfEven(Sum(durations) * MS * Hundredths,
                  Len(durations) * TicksPerSecond)

NonEmptyWindows(m) ==
    {key \in DOMAIN m.success_durations : m.success_durations[key] # << >>}

get_metrics(m) ==
    [counts |-> m.success_counts,
     errors |-> m.error_counts,
     avg_duration_ms |->
        [key \in NonEmptyWindows(m) |-> Average(m.success_durations[key])]]

\* ------------------------------------------------------------------ stages

\* _execute of each concrete stage; failing_execute is the replacement the
\* test harness installs (raise ValueError("Test error")).
Raise(exc) == [raised |-> TRUE, exc |-> exc, result |-> None]
Return(v) == [raised |-> FALSE, exc |-> NoExc, result |-> v]

\* orjson.loads(data.decode("utf-8"))
Loads(data) ==
    IF data.tag = "bytes" /\ data.enc = "json"
    THEN Return(Val("doc", "-", data.v))
    ELSE Raise("JSONDecodeError")

\* Faulty variant of Execute: ExporterManager._execute returns nothing.
ExecuteExporterReturnsNone(s, data) ==
    IF s \in failing_execute THEN Raise("ValueError")
    ELSE IF s = ZMQ THEN Loads(data)
    ELSE IF s = PROCESSOR THEN Return(data)
    ELSE IF s = METRICS THEN Return(Val("metrics", data.tag, data.v))
    ELSE Return(None)

Execute(s, data) ==
    IF s \in failing_execute THEN Raise("ValueError")
    ELSE IF s = ZMQ THEN Loads(data)
    ELSE IF s = PROCESSOR THEN Return(data)
    ELSE IF s = METRICS THEN Return(Val("metrics", data.tag, data.v))
    ELSE Return(True)

\* ExporterManager._execute keeps what it was given
ExportedAfter(s, data) ==
    IF s = EXPORTER /\ s \notin failing_execute THEN data ELSE exported_data

SuccessEvent(s, duration) ==
    [domain |-> ClassName[s], operation |-> "handle", duration |-> duration]

\* Faulty variant of ErrorEvent: the event names the base class instead of
\* the class of the exception caught.
ErrorEventBaseClass(s, exc) ==
    [domain |-> ClassName[s], operation |-> "handle", error_type |-> "Exception"]

ErrorEvent(s, exc) ==
    [domain |-> ClassName[s], operation |-> "handle", error_type |-> exc]

\* time() - start
Elapsed(start, end) == end - start

\* ------------------------------------------------------------ handle frames

\* One call of BaseDomain.handle.  pc: "execute" (before await _execute),
\* "handled" / "success" / "error" (inside the loop of that helper, about to
\* await the callback at idx), "return", "raise" (leaving, exc in flight).
NewFrame(s, data, msg) ==
    [stage |-> s, pc |-> "execute", idx |-> 1, data |-> data, result |-> None,
     start |-> now, duration |-> 0, exc |-> NoExc, msg |-> msg]

Top == stack[Len(stack)]
Below == SubSeq(stack, 1, Len(stack) - 1)
ReplaceTop(f) == Append(Below, f)

\* the list a frame is iterating
ListOf(f) ==
    IF f.pc = "handled" THEN callbacks[f.stage]
    ELSE IF f.pc = "success" THEN success_callbacks[f.stage]
    ELSE error_callbacks[f.stage]

\* the argument the callbacks of that list are awaited with
ArgOf(f) ==
    IF f.pc = "handled" THEN f.result
    ELSE IF f.pc = "success" THEN SuccessEvent(f.stage, f.duration)
    ELSE ErrorEvent(f.stage, f.exc)

\* Faulty variant of Propagate: the except block ends without `raise`, so
\* handle returns normally after the error callbacks.
PropagateSwallowed(f, exc) == [f EXCEPT !.pc = "return", !.exc = exc]

\* `raise` at the end of the except block, or an exception leaving it
Propagate(f, exc) == [f EXCEPT !.pc = "raise", !.exc = exc]

\* Faulty variant of EnterError: the failure of _execute is swallowed and
\* the (empty) result is forwarded like a success.
EnterErrorForwarding(f, exc) ==
    IF Len(callbacks[f.stage]) = 0
    THEN [f EXCEPT !.pc = "return", !.exc = exc]
    ELSE [f EXCEPT !.pc = "handled", !.idx = 1, !.exc = exc]

\* await self.error(...): the except block
EnterError(f, exc) ==
    IF Len(error_callbacks[f.stage]) = 0
    THEN Propagate(f, exc)
    ELSE [f EXCEPT !.pc = "error", !.idx = 1, !.exc = exc]

\* await self.success(...), then the end of the try block
EnterSuccess(f) ==
    IF Len(success_callbacks[f.stage]) = 0
    THEN [f EXCEPT !.pc = "return"]
    ELSE [f EXCEPT !.pc = "success", !.idx = 1]

\* Faulty variant of EnterHandled: handle emits its success event right after
\* _execute and returns, without forwarding the result.
EnterHandledSuccessOnly(f) == EnterSuccess(f)

\* await self.handled(result), then self.success
EnterHandled(f) ==
    IF Len(callbacks[f.stage]) = 0
    THEN EnterSuccess(f)
    ELSE [f EXCEPT !.pc = "handled", !.idx = 1]

\* Faulty variant of AfterCallback: the helper returns after its first
\* callback instead of going through the list.
AfterCallbackFirstOnly(f) ==
    IF f.pc = "handled" THEN EnterSuccess(f)
    ELSE IF f.pc = "success" THEN [f EXCEPT !.pc = "return"]
    ELSE Propagate(f, f.exc)

\* the awaited callback returned: the next one of the list, or what follows
\* the helper in handle
AfterCallback(f) ==
    IF f.idx < Len(ListOf(f)) THEN [f EXCEPT !.idx = @ + 1]
    ELSE IF f.pc = "handled" THEN EnterSuccess(f)
    ELSE IF f.pc = "success" THEN [f EXCEPT !.pc = "return"]
    ELSE Propagate(f, f.exc)

\* Faulty variant of CallbackRaised: handled() skips a callback that raised
\* and goes on with the list.
CallbackRaisedSkipped(f, exc) ==
    IF f.pc = "handled" THEN AfterCallback(f)
    ELSE IF f.pc = "success" THEN EnterError(f, exc)
    ELSE Propagate(f, exc)

\* the awaited callback raised: inside the try block the except clause takes
\* it, inside the except block it leaves handle
CallbackRaised(f, exc) ==
    IF f.pc \in {"handled", "success"} THEN EnterError(f, exc)
    ELSE Propagate(f, exc)

\* what awaiting a callback does, apart from running a nested handle
Invoke(cb, arg) ==
    IF cb.kind = "on_success"
    THEN [raised |-> FALSE, exc |-> NoExc, monitor |-> Monitor_on_success(monitor, arg)]
    ELSE IF cb.kind = "on_error"
    THEN [raised |-> FALSE, exc |-> NoExc, monitor |-> Monitor_on_error(monitor, arg)]
    ELSE IF cb.kind = "on_pipeline_complete"
    THEN [raised |-> FALSE, exc |-> NoExc,
          monitor |-> on_pipeline_complete(monitor, arg)]
    ELSE IF cb.id \in side_effect
    THEN [raised |-> TRUE, exc |-> "RuntimeError", monitor |-> monitor]
    ELSE [raised |-> FALSE, exc |-> NoExc, monitor |-> monitor]

Entry(f, list, cb, arg) ==
    [msg |-> f.msg, stage |-> f.stage, list |-> list, cb |-> cb, arg |-> arg]

NoCallback == [kind |-> "-", id |-> 0]

\* while self.running, evaluated when the loop body has finished
LoopTest == IF running[ZMQ] = "True" THEN "recv" ELSE "exited"

\* the outermost handle call has finished: control is back in message_loop
\* (await self.handle(message)) or in the test that awaited handle
TaskAfter(raised) ==
    IF task # "handling" THEN task
    ELSE IF raised THEN "crashed"
    ELSE LoopTest

CallerAfter(raised, exc) ==
    IF task = "handling" THEN caller
    ELSE [caller EXCEPT !.state = IF raised THEN "raised" ELSE "returned",
                        !.exc = exc]

\* ------------------------------------------------------------ Orchestrator

NoCallbacks == [s \in Stages |-> << >>]

Last(ds) == ds[Len(ds)]

\* for prev, next in zip(domains, domains[1:]): prev.on_handled(next.handle)
\* Faulty variant of WirePipeline: each forward target registered twice.
WirePipelineTwice(cbs, ds) ==
    [s \in Stages |->
        IF \E i \in 1..(Len(ds) - 1) : ds[i] = s
        THEN LET i == CHOOSE j \in 1..(Len(ds) - 1) : ds[j] = s
             IN Append(Append(cbs[s], HandleOf(ds[i + 1])), HandleOf(ds[i + 1]))
        ELSE cbs[s]]

\* for i in range(len(domains) - 1): domains[i].on_handled(domains[i + 1].handle)
WirePipeline(cbs, ds) ==
    [s \in Stages |->
        IF \E i \in 1..(Len(ds) - 1) : ds[i] = s
        THEN LET i == CHOOSE j \in 1..(Len(ds) - 1) : ds[j] = s
             IN Append(cbs[s], HandleOf(ds[i + 1]))
        ELSE cbs[s]]

\* Faulty variant of WireMonitoring: the Monitor's callback registered twice.
WireMonitoringTwice(cbs, ds, cb) ==
    [s \in Stages |->
        IF \E i \in 1..Len(ds) : ds[i] = s
        THEN Append(Append(cbs[s], cb), cb) ELSE cbs[s]]

\* for domain in domains: domain.on_success(monitor.on_success) / on_error
WireMonitoring(cbs, ds, cb) ==
    [s \in Stages |->
        IF \E i \in 1..Len(ds) : ds[i] = s THEN Append(cbs[s], cb) ELSE cbs[s]]

\* Faulty variant of WireCompletion: the completion callback is registered on
\* every domain of the list.
WireCompletionEvery(cbs, ds) ==
    [s \in Stages |->
        IF \E i \in 1..Len(ds) : ds[i] = s
        THEN Append(cbs[s], MonitorOnPipelineComplete) ELSE cbs[s]]

\* Faulty variant of WireCompletion: domains[0] in place of domains[-1].
WireCompletionFirst(cbs, ds) ==
    [cbs EXCEPT ![ds[1]] = Append(@, MonitorOnPipelineComplete)]

\* domains[-1].on_handled(monitor.on_pipeline_complete)
WireCompletion(cbs, ds) ==
    [cbs EXCEPT ![Last(ds)] = Append(@, MonitorOnPipelineComplete)]

\* Faulty variant of TaskCreated: initialize yields to the event loop right
\* after create_task, so the task makes its first test before the flag is set.
TaskCreatedAndRun == LoopTest

\* self._task = asyncio.create_task(self.message_loop()): initialize is a
\* plain function, so the task is scheduled and makes no step before
\* initialize, and its caller, have given the event loop back
TaskCreated == "created"

\* the running attribute each initialize() leaves
RunningAfterInitialize(s) ==
    IF s \in {ZMQ, PROCESSOR} THEN "True" ELSE "False"

\* the attributes after the constructors: only ZMQManager sets running
RunningAfterInit == [s \in Stages |-> IF s = ZMQ THEN "False" ELSE "NoAttr"]

\* the position in ds of the first stage of the set, 0 when there is none
FirstOf(ds, set) ==
    IF \E i \in 1..Len(ds) : ds[i] \in set
    THEN CHOOSE i \in 1..Len(ds) :
            ds[i] \in set /\ \A j \in 1..(i - 1) : ds[j] \notin set
    ELSE 0

\* the stages a loop over ds calls a method on when the calls on the stages
\* of the set raise: the loop has no try, so the first to raise is the last
UpToFirst(ds, set) ==
    LET k == FirstOf(ds, set)
    IN IF k = 0 THEN ds ELSE SubSeq(ds, 1, k)

Range(q) == {q[i] : i \in 1..Len(q)}

\* Faulty variant of InitializeCalls: each initialize() in a try of its own.
InitializeCallsAll(ds) == ds

\* for domain in self.domains: domain.initialize()
InitializeCalls(ds) == UpToFirst(ds, failing_initialize)

\* the stages of init_calls whose initialize() returned
Initialized(calls) == Range(calls) \ failing_initialize

\* Orchestrator.initialize: the three wirings, then initialize() on every
\* domain in order.  ZMQManager.initialize fails at socket.bind, before the
\* task is created; the initialize() of another stage fails when it is
\* replaced by one that raises.  A failure leaves the loop and reaches the
\* caller.
OrchestratorInitializeBody ==
    LET calls == InitializeCalls(domains)
        done == Initialized(calls)
    IN
    /\ orch = "constructed"
    /\ callbacks' = WireCompletion(WirePipeline(callbacks, domains), domains)
    /\ success_callbacks' =
            WireMonitoring(success_callbacks, domains, MonitorOnSuccess)
    /\ error_callbacks' =
            WireMonitoring(error_callbacks, domains, MonitorOnError)
    /\ init_calls' = init_calls \o calls
    /\ running' = [s \in Stages |->
            IF s \in done THEN RunningAfterInitialize(s) ELSE running[s]]
    /\ socket' = IF ZMQ \in done THEN "bound"
                 ELSE IF ZMQ \in Range(calls) THEN "open" ELSE socket
    /\ task' = IF ZMQ \in done THEN TaskCreated ELSE task
    /\ orch' = IF Range(calls) \cap failing_initialize = {}
               THEN "initialized" ELSE "aborted"
    /\ UNCHANGED <<queue, published, domains, holder, lock, heap, threads,
                   failing_execute, side_effect,
                   failing_initialize, failing_shutdown, shutdown_calls,
                   inbox, stack, monitor, exported_data, now, shutdowns,
                   received, caller, trace>>

\* Orchestrator.initialize called by a test or another host
OrchestratorInitialize == OrchestratorInitializeBody /\ UNCHANGED app

\* the pending recv() when the socket is closed under it: pyzmq cancels the
\* future, and the task ends with CancelledError
TaskAfterClose == IF task = "recv" THEN "cancelled" ELSE task

\* if self.socket: self.socket.close()
SocketAfterClose(sock) == IF sock = "none" THEN "none" ELSE "closed"

\* Faulty variant of RunningAfterShutdown: the flag is cleared only where
\* the attribute exists.
RunningAfterShutdownIfSet(s, r) == IF r = "NoAttr" THEN r ELSE "False"

\* self.running = False, whatever the attribute was
RunningAfterShutdown(s, r) == "False"

\* Faulty variant of HandlerMayRun: a handler set with signal.signal, which
\* runs between any two instructions.
HandlerMayRunAnytime == TRUE

\* loop.add_signal_handler: the handler is a callback of the event loop,
\* run when no coroutine is; the test calls shutdown from its own coroutine
HandlerMayRun == stack = << >>

\* for domain in self.domains: domain.shutdown()
ShutdownCalls(ds) == UpToFirst(ds, failing_shutdown)

\* Orchestrator.shutdown: the metrics snapshot is logged, then shutdown() on
\* every domain.  It runs as a callback of the event loop (the signal
\* handler) or from the test, so never inside a traversal.  A shutdown()
\* that raises is ZMQManager's, at context.term(): its flag is cleared and
\* its socket closed by then.
OrchestratorShutdownBody ==
    LET calls == ShutdownCalls(domains)
        zmq == ZMQ \in Range(calls)
    IN
    /\ orch \in {"initialized", "aborted"}
    /\ HandlerMayRun
    /\ shutdowns < MaxShutdowns
    /\ shutdowns' = shutdowns + 1
    /\ monitor' = [monitor EXCEPT !.logged = @ + 1]
    /\ shutdown_calls' = shutdown_calls \o calls
    /\ running' = [s \in Stages |->
            IF s \in Range(calls)
            THEN RunningAfterShutdown(s, running[s]) ELSE running[s]]
    /\ socket' = IF zmq THEN SocketAfterClose(socket) ELSE socket
    /\ queue' = IF zmq THEN << >> ELSE queue
    /\ task' = IF zmq THEN TaskAfterClose ELSE task
    /\ UNCHANGED <<published, domains, holder, lock, heap, threads,
                   callbacks, success_callbacks,
                   error_callbacks, failing_execute, side_effect,
                   failing_initialize, failing_shutdown, init_calls, inbox,
                   stack, exported_data, now, orch, received, caller, trace>>

\* Orchestrator.shutdown called by a test or another host
OrchestratorShutdown == OrchestratorShutdownBody /\ UNCHANGED app

\* -------------------------------------------------- ZMQManager.message_loop

\* the task created in initialize gets the event loop for the first time:
\* while self.running
TaskStart ==
    /\ task = "created"
    /\ stack = << >>
    /\ task' = LoopTest
    /\ UNCHANGED <<queue, published, domains, app, holder, lock, heap, threads, failing_initialize, failing_shutdown,
                   init_calls, shutdown_calls, callbacks, success_callbacks, error_callbacks,
                   failing_execute, side_effect, running, socket, inbox, stack,
                   monitor, exported_data, now, orch, shutdowns, received,
                   caller, trace>>

\* a payload from the publisher reaches the bound socket and is buffered.
\* The buffer is read by recv() alone, so a payload that arrives during a
\* traversal is taken as arriving at its end.
PublishUpTo(max) ==
    /\ socket = "bound"
    /\ stack = << >>
    /\ Len(published) < max
    /\ \E p \in Payloads :
        /\ queue' = Append(queue, p)
        /\ published' = Append(published, p)
    /\ UNCHANGED <<domains, app, holder, lock, heap, threads, failing_initialize, failing_shutdown,
                   init_calls, shutdown_calls, callbacks, success_callbacks, error_callbacks,
                   failing_execute, side_effect, running, socket, task, inbox,
                   stack, monitor, exported_data, now, orch, shutdowns,
                   received, caller, trace>>

Publish == PublishUpTo(MaxMessages)

\* the publisher of a run that follows the life cycle of the stages
PublishLifecycle == PublishUpTo(MaxLifecycleMessages)

\* the pending recv() completes with the oldest buffered payload; the task
\* is scheduled to resume
Deliver ==
    /\ task = "recv"
    /\ socket = "bound"
    /\ queue # << >>
    /\ inbox' = Head(queue)
    /\ queue' = Tail(queue)
    /\ received' = received + 1
    /\ task' = "ready"
    /\ UNCHANGED <<published, domains, app, holder, lock, heap, threads, failing_initialize, failing_shutdown,
                   init_calls, shutdown_calls, callbacks, success_callbacks,
                   error_callbacks, failing_execute, side_effect, running,
                   socket, stack, monitor, exported_data, now, orch, shutdowns,
                   caller, trace>>

\* Faulty variant of Wake: handle(message) is started without being awaited,
\* and the loop goes straight back to recv().
WakeDetached ==
    /\ task = "ready"
    /\ stack = << >>
    /\ stack' = <<NewFrame(ZMQ, inbox, received)>>
    /\ task' = "recv"
    /\ UNCHANGED <<queue, published, domains, app, holder, lock, heap, threads, failing_initialize, failing_shutdown,
                   init_calls, shutdown_calls, callbacks, success_callbacks,
                   error_callbacks, failing_execute, side_effect, running,
                   socket, inbox, monitor, exported_data, now, orch, shutdowns,
                   received, caller, trace>>

\* message = await self.socket.recv() returns; await self.handle(message)
Wake ==
    /\ task = "ready"
    /\ stack = << >>
    /\ stack' = <<NewFrame(ZMQ, inbox, received)>>
    /\ task' = "handling"
    /\ UNCHANGED <<queue, published, domains, app, holder, lock, heap, threads, failing_initialize, failing_shutdown,
                   init_calls, shutdown_calls, callbacks, success_callbacks, error_callbacks,
                   failing_execute, side_effect, running, socket, inbox,
                   monitor, exported_data, now, orch, shutdowns, received,
                   caller, trace>>

\* ------------------------------------------------------- BaseDomain.handle

\* result = await self._execute(data); duration = time() - start
HandleExecute ==
    /\ stack # << >>
    /\ Top.pc = "execute"
    /\ \E d \in 0..1 :
        /\ now + d <= MaxClock
        /\ now' = now + d
        /\ LET out == Execute(Top.stage, Top.data)
               f == [Top EXCEPT !.result = out.result,
                                !.duration = Elapsed(Top.start, now + d)]
           IN stack' = ReplaceTop(IF out.raised
                                  THEN EnterError(f, out.exc)
                                  ELSE EnterHandled(f))
    /\ exported_data' = ExportedAfter(Top.stage, Top.data)
    /\ trace' = Append(trace, Entry(Top, "execute", NoCallback, Top.data))
    /\ UNCHANGED <<queue, published, domains, app, holder, lock, heap, threads, failing_initialize, failing_shutdown,
                   init_calls, shutdown_calls, callbacks, success_callbacks, error_callbacks,
                   failing_execute, side_effect, running, socket, task, inbox,
                   monitor, orch, shutdowns, received, caller>>

\* one `await cb(...)` of handled(), success() or error()
HandleCallback ==
    /\ stack # << >>
    /\ Top.pc \in {"handled", "success", "error"}
    /\ LET cb == ListOf(Top)[Top.idx]
           arg == ArgOf(Top)
       IN /\ trace' = Append(trace, Entry(Top, Top.pc, cb, arg))
          /\ IF cb.kind = "handle"
             THEN /\ stack' = Append(stack, NewFrame(cb.id, arg, Top.msg))
                  /\ monitor' = monitor
             ELSE LET out == Invoke(cb, arg)
                  IN /\ monitor' = out.monitor
                     /\ stack' = ReplaceTop(IF out.raised
                                            THEN CallbackRaised(Top, out.exc)
                                            ELSE AfterCallback(Top))
    /\ UNCHANGED <<queue, published, domains, app, holder, lock, heap, threads, failing_initialize, failing_shutdown,
                   init_calls, shutdown_calls, callbacks, success_callbacks, error_callbacks,
                   failing_execute, side_effect, running, socket, task, inbox,
                   exported_data, now, orch, shutdowns, received, caller>>

\* handle returns to whoever awaited it
HandleReturn ==
    /\ stack # << >>
    /\ Top.pc = "return"
    /\ stack' = IF Len(stack) = 1 THEN << >>
                ELSE Append(SubSeq(stack, 1, Len(stack) - 2),
                            AfterCallback(stack[Len(stack) - 1]))
    /\ task' = IF Len(stack) = 1 THEN TaskAfter(FALSE) ELSE task
    /\ caller' = IF Len(stack) = 1 THEN CallerAfter(FALSE, NoExc) ELSE caller
    /\ UNCHANGED <<queue, published, domains, app, holder, lock, heap, threads, failing_initialize, failing_shutdown,
                   init_calls, shutdown_calls, callbacks, success_callbacks, error_callbacks,
                   failing_execute, side_effect, running, socket, inbox,
                   monitor, exported_data, now, orch, shutdowns, received,
                   trace>>

\* the exception leaves handle and arrives where handle was awaited
HandleRaise ==
    /\ stack # << >>
    /\ Top.pc = "raise"
    /\ stack' = IF Len(stack) = 1 THEN << >>
                ELSE Append(SubSeq(stack, 1, Len(stack) - 2),
                            CallbackRaised(stack[Len(stack) - 1], Top.exc))
    /\ task' = IF Len(stack) = 1 THEN TaskAfter(TRUE) ELSE task
    /\ caller' = IF Len(stack) = 1 THEN CallerAfter(TRUE, Top.exc) ELSE caller
    /\ UNCHANGED <<queue, published, domains, app, holder, lock, heap, threads, failing_initialize, failing_shutdown,
                   init_calls, shutdown_calls, callbacks, success_callbacks, error_callbacks,
                   failing_execute, side_effect, running, socket, inbox,
                   monitor, exported_data, now, orch, shutdowns, received,
                   trace>>

\* ------------------------------------------------------------ unit harness

\* _create_test_input: a JSON payload for ZMQManager (and a malformed one),
\* the string "test_data" for the other stages
TestInputs(s) ==
    IF s = ZMQ THEN {Val("bytes", "json", "A"), Malformed}
    ELSE {Val("doc", "-", "test_data")}

Registrations ==
    Len(callbacks[domains[1]]) + Len(success_callbacks[domains[1]])
        + Len(error_callbacks[domains[1]])

\* Faulty variant of on_handled: the callback is put first.
on_handled_prepend(cbs, s, cb) == [cbs EXCEPT ![s] = <<cb>> \o @]

\* BaseDomain.on_handled / on_success / on_error: append, nothing else
on_handled(cbs, s, cb) == [cbs EXCEPT ![s] = Append(@, cb)]
BaseDomain_on_success(cbs, s, cb) == [cbs EXCEPT ![s] = Append(@, cb)]
BaseDomain_on_error(cbs, s, cb) == [cbs EXCEPT ![s] = Append(@, cb)]

Register ==
    /\ stack = << >>
    /\ caller.calls = 0
    /\ Registrations < MaxRegistrations
    /\ \E m \in Mocks, list \in {"handled", "success", "error"} :
        /\ callbacks' = IF list = "handled"
                        THEN on_handled(callbacks, domains[1], Mock(m))
                        ELSE callbacks
        /\ success_callbacks' =
                IF list = "success"
                THEN BaseDomain_on_success(success_callbacks, domains[1], Mock(m))
                ELSE success_callbacks
        /\ error_callbacks' =
                IF list = "error"
                THEN BaseDomain_on_error(error_callbacks, domains[1], Mock(m))
                ELSE error_callbacks
    /\ UNCHANGED <<queue, published, domains, app, holder, lock, heap, threads, failing_initialize, failing_shutdown,
                   init_calls, shutdown_calls, failing_execute, side_effect, running, socket,
                   task, inbox, stack, monitor, exported_data, now, orch,
                   shutdowns, received, caller, trace>>

\* await domain_instance.handle(test_input)
TestHandle ==
    /\ stack = << >>
    /\ caller.calls < MaxHandleCalls
    /\ \E data \in TestInputs(domains[1]) :
        stack' = <<NewFrame(domains[1], data, caller.calls + 1)>>
    /\ caller' = [state |-> "awaiting", exc |-> NoExc,
                  calls |-> caller.calls + 1]
    /\ UNCHANGED <<queue, published, domains, app, holder, lock, heap, threads, failing_initialize, failing_shutdown,
                   init_calls, shutdown_calls, callbacks, success_callbacks, error_callbacks,
                   failing_execute, side_effect, running, socket, task, inbox,
                   monitor, exported_data, now, orch, shutdowns, received,
                   trace>>

\* ------------------------------------------------------ singleton patterns

\* None in the holder
NoInstance == 0

\* no thread calls an accessor
NoThreads == << >>

Threads == 1..MaxThreads

\* the data argument of a call: None, or one of two dicts
DataArgs == {"None", "a", "b"}

\* data or {}
Stored(data) == IF data = "None" THEN "empty" ELSE data

\* the three accessors: get_symbol_map of approach 2 ("factory"), and of
\* approach 1 SymbolMap(...) ("new") and ThreadSafeSymbolMap(...) ("guarded")
Accessors == {"factory", "new", "guarded"}

\* a thread about to call the accessor with data
Calling(cls, data) ==
    [cls |-> cls, pc |-> "check", data |-> data, seen |-> NoInstance,
     created |-> NoInstance, self |-> NoInstance, n |-> 0,
     result |-> NoInstance, raised |-> NoExc]

\* object.__new__: no attribute yet
Blank == [data |-> "unset", init_count |-> 0, initialized |-> FALSE]

\* approach 2 SymbolMap.__init__
Constructed(data) ==
    [data |-> Stored(data), init_count |-> 1, initialized |-> FALSE]

\* the pipeline and the Application are left alone
PatternsOnly ==
    UNCHANGED <<domains, callbacks, success_callbacks, error_callbacks,
                failing_execute, side_effect, failing_initialize,
                failing_shutdown, init_calls, shutdown_calls, running, socket,
                task, queue, published, inbox, stack, monitor, exported_data,
                now, orch, shutdowns, received, caller, trace, app>>

\* Faulty variant of InstanceMissing: the check is passed whatever is held.
InstanceMissingAlways(h) == TRUE

\* if _symbol_map is None / if cls._instance is None: the first check
InstanceMissing(h) == h = NoInstance

\* Faulty variant of DoubleCheck: no second check under the lock.
DoubleCheckSkipped(h) == TRUE

\* if _symbol_map is None / if cls._instance is None, under the lock
DoubleCheck(h) == h = NoInstance

\* the first check, outside any lock
Check ==
    \E t \in DOMAIN threads :
        /\ threads[t].pc = "check"
        /\ threads' = [threads EXCEPT
                ![t].seen = holder,
                ![t].pc =
                    IF InstanceMissing(holder)
                    THEN (IF threads[t].cls = "new" THEN "create" ELSE "lock")
                    ELSE (IF threads[t].cls = "factory"
                          THEN "compare" ELSE "return")]
        /\ UNCHANGED <<holder, lock, heap>>
        /\ PatternsOnly

\* with _lock: the lock is taken when it is free
Lock ==
    \E t \in DOMAIN threads :
        /\ threads[t].pc = "lock"
        /\ lock = 0
        /\ lock' = t
        /\ threads' = [threads EXCEPT ![t].pc = "check2"]
        /\ UNCHANGED <<holder, heap>>
        /\ PatternsOnly

\* the second check
Check2 ==
    \E t \in DOMAIN threads :
        /\ threads[t].pc = "check2"
        /\ threads' = [threads EXCEPT
                ![t].pc = IF DoubleCheck(holder) THEN "create" ELSE "unlock"]
        /\ UNCHANGED <<holder, lock, heap>>
        /\ PatternsOnly

\* _symbol_map = SymbolMap(data) / cls._instance = super().__new__(cls)
Create ==
    \E t \in DOMAIN threads :
        /\ threads[t].pc = "create"
        /\ heap' = Append(heap, IF threads[t].cls = "factory"
                                THEN Constructed(threads[t].data) ELSE Blank)
        /\ holder' = Len(heap) + 1
        /\ threads' = [threads EXCEPT
                ![t].created = Len(heap) + 1,
                ![t].pc = IF threads[t].cls = "new" THEN "return" ELSE "unlock"]
        /\ UNCHANGED lock
        /\ PatternsOnly

\* the end of the with block
Unlock ==
    \E t \in DOMAIN threads :
        /\ threads[t].pc = "unlock"
        /\ lock' = 0
        /\ threads' = [threads EXCEPT ![t].pc = "return"]
        /\ UNCHANGED <<holder, heap>>
        /\ PatternsOnly

\* elif data is not None and data != _symbol_map.data: raise ValueError
Compare ==
    \E t \in DOMAIN threads :
        /\ threads[t].pc = "compare"
        /\ threads' = [threads EXCEPT ![t] =
                IF threads[t].data = "None" THEN [@ EXCEPT !.pc = "return"]
                ELSE IF holder = NoInstance
                THEN [@ EXCEPT !.pc = "done", !.raised = "AttributeError"]
                ELSE IF threads[t].data # heap[holder].data
                THEN [@ EXCEPT !.pc = "done", !.raised = "ValueError"]
                ELSE [@ EXCEPT !.pc = "return"]]
        /\ UNCHANGED <<holder, lock, heap>>
        /\ PatternsOnly

\* return _symbol_map / return cls._instance: the holder is read again.
\* What __new__ returns is the self of __init__.
ReturnInstance ==
    \E t \in DOMAIN threads :
        /\ threads[t].pc = "return"
        /\ threads' = [threads EXCEPT ![t] =
                IF threads[t].cls = "factory"
                THEN [@ EXCEPT !.pc = "done", !.result = holder]
                ELSE [@ EXCEPT !.self = holder,
                               !.pc = IF threads[t].cls = "guarded"
                                      THEN "hasattr" ELSE "data"]]
        /\ UNCHANGED <<holder, lock, heap>>
        /\ PatternsOnly

\* the thread that calls reset_symbol_map
Resetter == MaxThreads + 1

\* about to call reset_symbol_map()
Resetting == [Calling("reset", "None") EXCEPT !.pc = "reset_lock"]

\* reset_symbol_map: with _lock
ResetLock ==
    /\ Resetter \in DOMAIN threads
    /\ threads[Resetter].pc = "reset_lock"
    /\ lock = 0
    /\ lock' = Resetter
    /\ threads' = [threads EXCEPT ![Resetter].pc = "reset_assign"]
    /\ UNCHANGED <<holder, heap>>
    /\ PatternsOnly

\* reset_symbol_map: _symbol_map = None
ResetAssign ==
    /\ Resetter \in DOMAIN threads
    /\ threads[Resetter].pc = "reset_assign"
    /\ holder' = NoInstance
    /\ threads' = [threads EXCEPT ![Resetter].pc = "reset_unlock"]
    /\ UNCHANGED <<lock, heap>>
    /\ PatternsOnly

\* reset_symbol_map: the end of the with block
ResetUnlock ==
    /\ Resetter \in DOMAIN threads
    /\ threads[Resetter].pc = "reset_unlock"
    /\ lock' = 0
    /\ threads' = [threads EXCEPT ![Resetter].pc = "done"]
    /\ UNCHANGED <<holder, heap>>
    /\ PatternsOnly

\* if not hasattr(self, '_initialized')
Hasattr ==
    \E t \in DOMAIN threads :
        /\ threads[t].pc = "hasattr"
        /\ threads' = [threads EXCEPT
                ![t].pc = IF heap[threads[t].self].initialized
                          THEN "count_read" ELSE "mark"]
        /\ UNCHANGED <<holder, lock, heap>>
        /\ PatternsOnly

\* self._initialized = True
Mark ==
    \E t \in DOMAIN threads :
        /\ threads[t].pc = "mark"
        /\ heap' = [heap EXCEPT ![threads[t].self].initialized = TRUE]
        /\ threads' = [threads EXCEPT ![t].pc = "data"]
        /\ UNCHANGED <<holder, lock>>
        /\ PatternsOnly

\* self.data = data or {}
Data ==
    \E t \in DOMAIN threads :
        /\ threads[t].pc = "data"
        /\ heap' = [heap EXCEPT
                ![threads[t].self].data = Stored(threads[t].data)]
        /\ threads' = [threads EXCEPT
                ![t].pc = IF threads[t].cls = "guarded"
                          THEN "count_one" ELSE "count_read"]
        /\ UNCHANGED <<holder, lock>>
        /\ PatternsOnly

\* self.init_count = 1; the instance is handed to the caller
CountOne ==
    \E t \in DOMAIN threads :
        /\ threads[t].pc = "count_one"
        /\ heap' = [heap EXCEPT ![threads[t].self].init_count = 1]
        /\ threads' = [threads EXCEPT
                ![t].pc = "done", ![t].result = threads[t].self]
        /\ UNCHANGED <<holder, lock>>
        /\ PatternsOnly

\* getattr(self, 'init_count', 0) + 1
CountRead ==
    \E t \in DOMAIN threads :
        /\ threads[t].pc = "count_read"
        /\ threads' = [threads EXCEPT
                ![t].n = heap[threads[t].self].init_count + 1,
                ![t].pc = "count_write"]
        /\ UNCHANGED <<holder, lock, heap>>
        /\ PatternsOnly

\* self.init_count = ...; the instance is handed to the caller
CountWrite ==
    \E t \in DOMAIN threads :
        /\ threads[t].pc = "count_write"
        /\ heap' = [heap EXCEPT ![threads[t].self].init_count = threads[t].n]
        /\ threads' = [threads EXCEPT
                ![t].pc = "done", ![t].result = threads[t].self]
        /\ UNCHANGED <<holder, lock>>
        /\ PatternsOnly

\* ------------------------------------------------------------ Application

\* Application.__init__: running = False; main has not been entered
AppInit == [running |-> FALSE, main |-> "constructed"]

\* Application.main up to its wait loop: Orchestrator.initialize, then
\* running = True and the handlers of SIGINT and SIGTERM are set.  When
\* initialize raises, main goes through except and finally and is over.
AppMain ==
    /\ app.main = "constructed"
    /\ OrchestratorInitializeBody
    /\ app' = IF orch' = "initialized"
              THEN [running |-> TRUE, main |-> "sleeping"]
              ELSE [app EXCEPT !.main = "failed"]

\* the event loop runs callbacks and tasks while main is in its wait loop
LoopAlive == app.main = "sleeping"

\* Application._shutdown_handler, run for a delivered SIGINT or SIGTERM
ShutdownHandler ==
    /\ LoopAlive
    /\ OrchestratorShutdownBody
    /\ app' = [app EXCEPT !.running = FALSE]

\* await asyncio.sleep(0.1) is over and `while self.running` is false: main
\* leaves the loop and ends, and the event loop with it
MainWake ==
    /\ LoopAlive
    /\ stack = << >>
    /\ ~app.running
    /\ app' = [app EXCEPT !.main = "exited"]
    /\ UNCHANGED <<domains, callbacks, success_callbacks, error_callbacks,
                   failing_execute, side_effect, failing_initialize,
                   failing_shutdown, init_calls, shutdown_calls, running,
                   socket, task, queue, published, inbox, stack, monitor,
                   exported_data, now, orch, shutdowns, received, caller,
                   trace, holder, lock, heap, threads>>

\* the steps of the receive loop and of the publisher, under the
\* Application's event loop
AppTaskStart == LoopAlive /\ TaskStart
AppPublish == LoopAlive /\ PublishLifecycle
AppDeliver == LoopAlive /\ Deliver
AppResume == LoopAlive /\ Wake

\* ---------------------------------------------------------- specifications

InitCommon ==
    /\ callbacks = NoCallbacks
    /\ success_callbacks = NoCallbacks
    /\ error_callbacks = NoCallbacks
    /\ running = RunningAfterInit
    /\ socket = "none"
    /\ task = "none"
    /\ queue = << >>
    /\ published = << >>
    /\ inbox = None
    /\ stack = << >>
    /\ monitor = MonitorInit
    /\ exported_data = None
    /\ init_calls = << >>
    /\ shutdown_calls = << >>
    /\ app = AppInit
    /\ holder = NoInstance
    /\ lock = 0
    /\ heap = << >>
    /\ now = 0
    /\ orch = "constructed"
    /\ shutdowns = 0
    /\ received = 0
    /\ caller = [state |-> "idle", exc |-> NoExc, calls |-> 0]
    /\ trace = << >>

InPipeline(ds) == {ds[i] : i \in 1..Len(ds)}

NoFault == [execute |-> {}, initialize |-> {}, shutdown |-> {}]

\* The faults of one run: none, or one method of one stage raises.  _execute
\* and initialize are abstract in BaseDomain and any stage's may raise;
\* among the shutdown() bodies, ZMQManager's is the one with calls that can
\* (socket.close, context.term).
ExecuteFaults(ds) ==
    {[NoFault EXCEPT !.execute = {s}] : s \in InPipeline(ds)}

LifecycleFaults(ds) ==
    {[NoFault EXCEPT !.initialize = {s}] : s \in InPipeline(ds)}
    \cup {[NoFault EXCEPT !.shutdown = {ZMQ}]}

InitWith(faults) ==
    /\ InitCommon
    /\ threads = NoThreads
    /\ \E f \in faults :
        /\ failing_execute = f.execute
        /\ failing_initialize = f.initialize
        /\ failing_shutdown = f.shutdown
    /\ side_effect = {}

\* after Orchestrator.__init__; the messages are followed: no fault, an
\* _execute that raises, or a bind that fails
Init ==
    /\ domains \in Pipelines
    /\ InitWith({NoFault, [NoFault EXCEPT !.initialize = {ZMQ}]}
                    \cup ExecuteFaults(domains))

Next ==
    \/ OrchestratorInitialize
    \/ OrchestratorShutdown
    \/ TaskStart
    \/ Publish
    \/ Deliver
    \/ Wake
    \/ HandleExecute
    \/ HandleCallback
    \/ HandleReturn
    \/ HandleRaise

Spec == Init /\ [][Next]_vars

\* after Orchestrator.__init__; the life cycle is followed: no fault, an
\* initialize() or a shutdown() that raises
InitLifecycle ==
    /\ domains \in Pipelines
    /\ InitWith({NoFault} \cup LifecycleFaults(domains))

NextLifecycle ==
    \/ OrchestratorInitialize
    \/ OrchestratorShutdown
    \/ TaskStart
    \/ PublishLifecycle
    \/ Deliver
    \/ Wake
    \/ HandleExecute
    \/ HandleCallback
    \/ HandleReturn
    \/ HandleRaise

SpecLifecycle == InitLifecycle /\ [][NextLifecycle]_vars

\* after Application.__init__: no fault, or a bind that fails
InitApp ==
    /\ domains \in Pipelines
    /\ InitWith({NoFault, [NoFault EXCEPT !.initialize = {ZMQ}]})

NextApp ==
    \/ AppMain
    \/ ShutdownHandler
    \/ MainWake
    \/ AppTaskStart
    \/ AppPublish
    \/ AppDeliver
    \/ AppResume
    \/ HandleExecute
    \/ HandleCallback
    \/ HandleReturn
    \/ HandleRaise

SpecApp == InitApp /\ [][NextApp]_vars

\* ---- the singletons, from the reset state

\* every thread is about to call the accessor cls, each with its own data
InitThreads(cls) ==
    /\ InitCommon
    /\ domains = <<ZMQ, PROCESSOR, METRICS, EXPORTER>>
    /\ failing_execute = {}
    /\ failing_initialize = {}
    /\ failing_shutdown = {}
    /\ side_effect = {}
    /\ threads \in [Threads -> {Calling(cls, d) : d \in DataArgs}]

\* approach 2: get_symbol_map
InitFactory == InitThreads("factory")

NextFactory ==
    \/ Check
    \/ Lock
    \/ Check2
    \/ Create
    \/ Unlock
    \/ Compare
    \/ ReturnInstance

SpecFactory == InitFactory /\ [][NextFactory]_vars

\* approach 2: get_symbol_map while another thread calls reset_symbol_map
InitReset ==
    /\ InitCommon
    /\ domains = <<ZMQ, PROCESSOR, METRICS, EXPORTER>>
    /\ failing_execute = {}
    /\ failing_initialize = {}
    /\ failing_shutdown = {}
    /\ side_effect = {}
    /\ \E callers \in [Threads -> {Calling("factory", d) : d \in DataArgs}] :
            threads = [t \in Threads \cup {Resetter} |->
                        IF t = Resetter THEN Resetting ELSE callers[t]]

NextReset ==
    \/ Check
    \/ Lock
    \/ Check2
    \/ Create
    \/ Unlock
    \/ Compare
    \/ ReturnInstance
    \/ ResetLock
    \/ ResetAssign
    \/ ResetUnlock

SpecReset == InitReset /\ [][NextReset]_vars

\* approach 1: SymbolMap(...)
InitNew == InitThreads("new")

NextNew ==
    \/ Check
    \/ Create
    \/ ReturnInstance
    \/ Data
    \/ CountRead
    \/ CountWrite

SpecNew == InitNew /\ [][NextNew]_vars

\* approach 1: ThreadSafeSymbolMap(...)
InitGuarded == InitThreads("guarded")

NextGuarded ==
    \/ Check
    \/ Lock
    \/ Check2
    \/ Create
    \/ Unlock
    \/ ReturnInstance
    \/ Hasattr
    \/ Mark
    \/ Data
    \/ CountOne
    \/ CountRead
    \/ CountWrite

SpecGuarded == InitGuarded /\ [][NextGuarded]_vars

\* after the domain_instance fixture of BaseDomainTest
InitUnit ==
    /\ InitCommon
    /\ threads = NoThreads
    /\ domains \in {<<s>> : s \in Stages}
    /\ failing_execute \in {{}, {domains[1]}}
    /\ failing_initialize = {}
    /\ failing_shutdown = {}
    /\ side_effect \in SUBSET RaisingMocks

NextUnit ==
    \/ Register
    \/ TestHandle
    \/ HandleExecute
    \/ HandleCallback
    \/ HandleReturn
    \/ HandleRaise

SpecUnit == InitUnit /\ [][NextUnit]_vars

\* ---- the Monitor called directly

\* what stays as constructed while the Monitor alone is called
MonitorOnly ==
    UNCHANGED <<domains, app, holder, lock, heap, threads, callbacks, success_callbacks, error_callbacks,
                failing_execute, side_effect, failing_initialize,
                failing_shutdown, init_calls, shutdown_calls, running, socket,
                task, queue, published, inbox, stack, exported_data, now,
                orch, shutdowns, received, caller, trace>>

\* after Monitor.__init__, in the Orchestrator as constructed
InitMonitor ==
    /\ InitCommon
    /\ threads = NoThreads
    /\ domains = <<ZMQ, PROCESSOR, METRICS, EXPORTER>>
    /\ failing_execute = {}
    /\ failing_initialize = {}
    /\ failing_shutdown = {}
    /\ side_effect = {}

\* the stages whose events are fed, and the error types
FedStages == {ZMQ, PROCESSOR}
FedErrors == {"ValueError", "JSONDecodeError"}
False == Val("bool", "-", "False")

\* await monitor.on_success(event)
FeedSuccess ==
    /\ SumOver(monitor.success_counts, DOMAIN monitor.success_counts)
            < MaxSuccessEvents
    /\ \E s \in FedStages, d \in 0..MaxDuration :
            monitor' = Monitor_on_success(monitor, SuccessEvent(s, d))
    /\ MonitorOnly

\* await monitor.on_error(event)
FeedError ==
    /\ SumOver(monitor.error_counts, DOMAIN monitor.error_counts)
            < MaxErrorEvents
    /\ \E s \in FedStages, exc \in FedErrors :
            monitor' = Monitor_on_error(monitor, ErrorEvent(s, exc))
    /\ MonitorOnly

\* await monitor.on_pipeline_complete(result)
FeedComplete ==
    /\ monitor.count < MaxCompletions
    /\ \E result \in {True, False} :
            monitor' = on_pipeline_complete(monitor, result)
    /\ MonitorOnly

NextMonitor ==
    \/ FeedSuccess
    \/ FeedError
    \/ FeedComplete

SpecMonitor == InitMonitor /\ [][NextMonitor]_vars

\* ---- completions up to the second snapshot

\* await monitor.on_pipeline_complete(result)
FeedCompleteLong ==
    /\ monitor.count < MaxSnapshotCompletions
    /\ \E result \in {True, False} :
            monitor' = on_pipeline_complete(monitor, result)
    /\ MonitorOnly

NextSnapshot ==
    \/ FeedCompleteLong
    \/ FeedError

SpecSnapshot == InitMonitor /\ [][NextSnapshot]_vars

\* ---- one key's window filled

\* the events fed so far under the key of stage s
Fed(s) == Get(monitor.success_counts, EventKey(SuccessEvent(s, 0)), 0)

\* await monitor.on_success(event): the n-th event of a key lasts n ticks,
\* so that a sample tells when it was inserted
FeedRamp ==
    /\ \E s \in FedStages :
        /\ Fed(s) < (IF s = ZMQ THEN MaxInsertions ELSE MaxOtherInsertions)
        /\ monitor' = Monitor_on_success(monitor, SuccessEvent(s, Fed(s) + 1))
    /\ MonitorOnly

NextWindow == FeedRamp

SpecWindow == InitMonitor /\ [][NextWindow]_vars

\* ------------------------------------------------------ reading the trace

\* the invocations made for message (or harness call) n by stage s in one
\* of "execute", "handled", "success", "error", in order
CallsOf(n, s, list) ==
    LET Test(e) == e.msg = n /\ e.stage = s /\ e.list = list
    IN SelectSeq(trace, Test)

CallbacksOf(q) == [i \in 1..Len(q) |-> q[i].cb]

\* _execute of stage s was run for n and raised
FailedAt(n, s) ==
    \E i \in 1..Len(trace) :
        /\ trace[i].msg = n /\ trace[i].stage = s /\ trace[i].list = "execute"
        /\ Execute(s, trace[i].arg).raised

\* _execute of stage s was run for n and returned
SucceededAt(n, s) ==
    \E i \in 1..Len(trace) :
        /\ trace[i].msg = n /\ trace[i].stage = s /\ trace[i].list = "execute"
        /\ ~Execute(s, trace[i].arg).raised

Failed(n) == \E s \in Stages : FailedAt(n, s)

\* every stage of the pipeline ran _execute for n and none raised
AllSucceeded(n) == \A s \in InPipeline(domains) : SucceededAt(n, s)

\* position of a stage in Orchestrator.domains
Pos(s) == CHOOSE i \in 1..Len(domains) : domains[i] = s

\* the traversal of received message n is over
Done(n) == n < received \/ (n = received /\ task \notin {"ready", "handling"})

\* calls of Monitor.on_pipeline_complete made for message n
Completions(n) ==
    LET Test(e) == e.msg = n /\ e.cb = MonitorOnPipelineComplete
    IN Len(SelectSeq(trace, Test))

\* what the Monitor saw, in order: <<document of the message, stage, method>>
MonitorEvents ==
    LET Test(e) == e.cb.kind \in {"on_success", "on_error", "on_pipeline_complete"}
        q == SelectSeq(trace, Test)
    IN [i \in 1..Len(q) |-> <<published[q[i].msg].v, q[i].stage, q[i].cb.kind>>]

\* the harness's latest handle call is over
CallOver == caller.calls >= 1 /\ caller.state \in {"returned", "raised"}

\* the input of the harness's latest handle call
CallInput == CallsOf(caller.calls, domains[1], "execute")[1].arg

\* some callback of list q is a mock set to raise
HasRaising(q) == \E i \in 1..Len(q) : q[i].kind = "mock" /\ q[i].id \in side_effect

\* ------------------------------------------------------------------ claims

\* C1 (SpecUnit): when _execute succeeds and no callback raises, one call of
\* handle awaits every handled callback exactly once with the result, in
\* registration order, then every success callback exactly once with
\* {domain = class name, operation = "handle", duration >= 0}, and awaits no
\* error callback.
C1_SuccessFlow ==
    LET s == domains[1]
        n == caller.calls
        handled == CallsOf(n, s, "handled")
        success == CallsOf(n, s, "success")
    IN (/\ CallOver
        /\ ~Execute(s, CallInput).raised
        /\ ~HasRaising(callbacks[s])
        /\ ~HasRaising(success_callbacks[s]))
       => /\ CallbacksOf(handled) = callbacks[s]
          /\ \A i \in 1..Len(handled) :
                handled[i].arg = Execute(s, CallInput).result
          /\ CallbacksOf(success) = success_callbacks[s]
          /\ \A i \in 1..Len(success) :
                /\ success[i].arg.domain = ClassName[s]
                /\ success[i].arg.operation = "handle"
                /\ success[i].arg.duration >= 0
          /\ CallsOf(n, s, "error") = << >>

\* a successful call with two different handled callbacks and two success
\* callbacks registered
C1_Witness ==
    LET s == domains[1]
    IN /\ CallOver
       /\ caller.state = "returned"
       /\ Len(callbacks[s]) = 2
       /\ callbacks[s][1] # callbacks[s][2]
       /\ Len(success_callbacks[s]) = 1
       /\ Len(CallsOf(caller.calls, s, "success")) = 1

C3_OneCompletionPerMessage ==
    /\ \A n \in 1..received : (Done(n) /\ AllSucceeded(n)) => Completions(n) = 1
    /\ stack = << >> =>
            monitor.completed_pipelines =
                Cardinality({n \in 1..received : Done(n) /\ AllSucceeded(n)})

\* two messages went through the four stages
C3_Witness ==
    /\ Len(domains) = 4
    /\ received = 2
    /\ Done(1) /\ AllSucceeded(1)
    /\ Done(2) /\ AllSucceeded(2)
    /\ monitor.completed_pipelines = 2

\* C4 (Spec): a message whose _execute fails at stage i causes no completion
\* event, and no later stage is run or awaits any callback for it.
C4_NothingAfterFailure ==
    \A n \in 1..received : \A s \in InPipeline(domains) :
        FailedAt(n, s) =>
            /\ Completions(n) = 0
            /\ \A i \in 1..Len(trace) :
                    trace[i].msg = n => Pos(trace[i].stage) <= Pos(s)

\* a message failed at the second of four stages and its traversal is over
C4_Witness ==
    /\ Len(domains) = 4
    /\ received >= 1
    /\ FailedAt(1, PROCESSOR)
    /\ Done(1)

\* C5 (Spec): a message whose _execute fails at some stage raises the sum of
\* the Monitor's error counts by exactly 1: between traversals the sum is
\* the number of failed messages.
C5_OneErrorEventPerFailure ==
    stack = << >> =>
        SumOver(monitor.error_counts, DOMAIN monitor.error_counts) =
            Cardinality({n \in 1..received : Failed(n)})

\* C6 (Spec): a failed message is not fatal to the receive loop: once its
\* error event is out and while the stage is running, the loop is still
\* receiving, so later messages are passed to handle.
C6_LoopSurvivesFailure ==
    (/\ \E n \in 1..received : Failed(n) /\ Done(n)
     /\ running[ZMQ] = "True")
    => task \in {"recv", "ready", "handling"}

\* the two-stage pipeline has been fed A then B and both traversals are over
TwoStageFedAB ==
    /\ Len(domains) = 2
    /\ failing_execute = {}
    /\ published = <<Val("bytes", "json", "A"), Val("bytes", "json", "B")>>
    /\ received = 2
    /\ Done(2)

\* C7 as stated (Spec): the Monitor sees A stage-1 success, A stage-2
\* success, A completion, then the same for B.
C7_StatedOrder ==
    TwoStageFedAB =>
        MonitorEvents =
            << <<"A", domains[1], "on_success">>,
               <<"A", domains[2], "on_success">>,
               <<"A", domains[2], "on_pipeline_complete">>,
               <<"B", domains[1], "on_success">>,
               <<"B", domains[2], "on_success">>,
               <<"B", domains[2], "on_pipeline_complete">> >>

\* C7 amended (Spec): the Monitor sees A completion, A stage-2 success,
\* A stage-1 success, then the same for B.
C7_Order ==
    TwoStageFedAB =>
        MonitorEvents =
            << <<"A", domains[2], "on_pipeline_complete">>,
               <<"A", domains[2], "on_success">>,
               <<"A", domains[1], "on_success">>,
               <<"B", domains[2], "on_pipeline_complete">>,
               <<"B", domains[2], "on_success">>,
               <<"B", domains[1], "on_success">> >>

\* both traversals are over and the Monitor has seen six events
C7_Witness == TwoStageFedAB /\ Len(MonitorEvents) = 6

\* C8 (Spec): messages are handled one at a time in receipt order: the
\* invocations of an earlier message all come before those of a later one,
\* messages enter the pipeline in the order they reached the socket, and
\* every handle call in progress belongs to the one message received last.
C8_OneAtATime ==
    /\ \A i, j \in 1..Len(trace) : i < j => trace[i].msg <= trace[j].msg
    /\ \A n \in 1..received :
            CallsOf(n, ZMQ, "execute") # << >> =>
                CallsOf(n, ZMQ, "execute")[1].arg = published[n]
    /\ \A i \in 1..Len(stack) : stack[i].msg = received
    /\ stack # << >> => task = "handling"

\* two different messages have gone through, one after the other
C8_Witness ==
    /\ received = 2
    /\ Done(2)
    /\ published[1] # published[2]
    /\ AllSucceeded(1)
    /\ AllSucceeded(2)

\* nothing is left to run: no traversal, no task step, no buffered payload
\* that a waiting recv() could take
Quiescent ==
    /\ stack = << >>
    /\ task \notin {"created", "ready", "handling"}
    /\ task = "recv" => queue = << >>

\* C9 (Spec): the four-stage pipeline, fed one well-formed and one malformed
\* message in either order, ends with completed_pipelines = 1,
\* not_completed_pipelines = 0 and one error under "ZMQManager.handle".
C9_OneGoodOneBad ==
    (/\ Len(domains) = 4
     /\ failing_execute = {}
     /\ shutdowns = 0
     /\ Len(published) = 2
     /\ \E i, j \in 1..2 :
            published[i] = Malformed /\ published[j].enc = "json"
     /\ Quiescent)
    => /\ monitor.completed_pipelines = 1
       /\ monitor.not_completed_pipelines = 0
       /\ Get(monitor.error_counts, "ZMQManager.handle", 0) = 1

\* C10 (SpecUnit): a failure raised inside a handled, success or error
\* callback is not caught by handle: it reaches the caller of handle and the
\* stage's error callbacks are not awaited because of it.
C10_CallbackFailureNotCaught ==
    LET s == domains[1]
        n == caller.calls
        RaisedIn(list) ==
            \E i \in 1..Len(trace) :
                /\ trace[i].msg = n /\ trace[i].list = list
                /\ trace[i].cb.kind = "mock" /\ trace[i].cb.id \in side_effect
    IN /\ (CallOver /\ (RaisedIn("handled") \/ RaisedIn("success")))
            => /\ CallsOf(n, s, "error") = << >>
               /\ caller.state = "raised"
               /\ caller.exc = "RuntimeError"
       /\ (CallOver /\ RaisedIn("error"))
            => /\ caller.state = "raised"
               /\ caller.exc = "RuntimeError"

\* C11 (SpecWindow): after any sequence of on_success calls the window of
\* every key holds at most 1000 durations, and from the 1001st insertion for
\* a key on, the earliest inserted duration of that key (1 tick) is out of
\* the window and the oldest kept one is the 1000th from the end.
C11_WindowBounded ==
    \A s \in FedStages :
        LET w == Get(monitor.success_durations, EventKey(SuccessEvent(s, 0)), << >>)
        IN /\ Len(w) <= DurationWindow
           /\ Fed(s) > DurationWindow =>
                /\ \A i \in 1..Len(w) : w[i] # 1
                /\ w[1] = Fed(s) - DurationWindow + 1
                /\ w[Len(w)] = Fed(s)

\* 1001 events were fed under the ingress key, 2 under another
C11_Witness ==
    /\ Fed(ZMQ) = DurationWindow + 1
    /\ Fed(PROCESSOR) = 2
    /\ Len(monitor.success_durations["ZMQManager.handle"]) = DurationWindow

\* C12 (SpecMonitor): for every key with a non-empty window,
\* get_metrics()["avg_duration_ms"][key] is the mean of the window turned
\* from seconds into milliseconds (times 1000) and rounded to 2 decimals;
\* keys with an empty window are left out.
C12_AverageInMs ==
    get_metrics(monitor).avg_duration_ms =
        [key \in NonEmptyWindows(monitor) |->
            RoundHalfEven(Sum(monitor.success_durations[key]) * 1000 * Hundredths,
                          Len(monitor.success_durations[key]) * TicksPerSecond)]

\* C13 (SpecMonitor): each on_pipeline_complete call raises the total by 1
\* and exactly one of completed_pipelines, not_completed_pipelines by 1, so
\* that the total stays their sum.
C13_CompletionCounters ==
    [][/\ monitor'.count =
            monitor'.completed_pipelines + monitor'.not_completed_pipelines
       /\ monitor'.count # monitor.count =>
            /\ monitor'.count = monitor.count + 1
            /\ \/ /\ monitor'.completed_pipelines = monitor.completed_pipelines + 1
                  /\ monitor'.not_completed_pipelines = monitor.not_completed_pipelines
               \/ /\ monitor'.completed_pipelines = monitor.completed_pipelines
                  /\ monitor'.not_completed_pipelines =
                        monitor.not_completed_pipelines + 1]_vars

\* completions of both kinds were counted
C13_Witness ==
    /\ monitor.completed_pipelines = 2
    /\ monitor.not_completed_pipelines = 2
    /\ monitor.count = 4

\* C14 (SpecLifecycle): Orchestrator.initialize does the three wirings, then
\* calls initialize() on the stages in list order and stops at the first
\* that fails: the stages before it have been initialized, initialize() is
\* not invoked on any stage after it, and the caller gets the failure.
C14_FailFast ==
    orch # "constructed" =>
        /\ \A i \in 1..Len(domains) :
            /\ MonitorOnSuccess \in Range(success_callbacks[domains[i]])
            /\ MonitorOnError \in Range(error_callbacks[domains[i]])
            /\ i < Len(domains) =>
                    HandleOf(domains[i + 1]) \in Range(callbacks[domains[i]])
        /\ MonitorOnPipelineComplete \in Range(callbacks[Last(domains)])
        /\ Len(init_calls) <= Len(domains)
        /\ \A i \in 1..Len(init_calls) : init_calls[i] = domains[i]
        /\ \A i \in 1..Len(domains) :
                i <= Len(init_calls)
                    <=> \A j \in 1..(i - 1) : domains[j] \notin failing_initialize
        /\ orch = "aborted" <=> InPipeline(domains) \cap failing_initialize # {}
        /\ shutdowns = 0 =>
                \A i \in 1..Len(domains) :
                    running[domains[i]] =
                        IF /\ i <= Len(init_calls)
                           /\ domains[i] \notin failing_initialize
                        THEN RunningAfterInitialize(domains[i])
                        ELSE RunningAfterInit[domains[i]]

\* stage 3 of 4 failed to initialize
C14_Witness ==
    /\ Len(domains) = 4
    /\ failing_initialize = {domains[3]}
    /\ orch = "aborted"
    /\ init_calls = <<ZMQ, PROCESSOR, METRICS>>
    /\ running[EXPORTER] = "NoAttr"

\* C15 (SpecLifecycle): once a stage's initialize() has failed inside
\* Orchestrator.initialize, nothing of the pipeline runs: no stage handles a
\* received message and the Monitor gets no success, error or completion
\* event.
C15_NothingRunsAfterFailedInitialize ==
    orch = "aborted" =>
        /\ trace = << >>
        /\ received = 0
        /\ [monitor EXCEPT !.logged = 0] = MonitorInit

\* C16 (SpecLifecycle): Orchestrator.shutdown is best-effort: when the
\* shutdown() of a stage raises, shutdown() is still called on every stage
\* after it in the list.
C16_ShutdownBestEffort ==
    \A i \in 1..Len(domains) :
        (domains[i] \in failing_shutdown /\ domains[i] \in Range(shutdown_calls))
            => \A j \in (i + 1)..Len(domains) :
                    domains[j] \in Range(shutdown_calls)

\* C17 (SpecLifecycle): shutdown() of a concrete stage leaves it not running,
\* whether or not its initialize() was ever called, and a further shutdown()
\* of the same stage changes nothing of it.
C17_ShutdownIdempotent ==
    [][/\ \A s \in Range(shutdown_calls') \ failing_shutdown :
            running'[s] = "False"
       /\ shutdowns' = shutdowns + 1 =>
            \A s \in Range(shutdown_calls) \ failing_shutdown :
                /\ running'[s] = running[s]
                /\ s = ZMQ =>
                    /\ socket' = socket
                    /\ task' = task
                    /\ queue' = queue]_vars

\* shutdown() was called twice on a stage that was never initialized, and
\* twice on one that was
C17_Witness ==
    /\ shutdowns = 2
    /\ failing_shutdown = {}
    /\ \E s \in Range(shutdown_calls) : s \notin Range(init_calls)
    /\ \E s \in Range(shutdown_calls) : s \in Initialized(init_calls)

\* C18 (SpecLifecycle): from the return of initialize() of a concrete stage
\* until its shutdown(), the running flag of the stage is true.
C18_RunningAfterInitialize ==
    \A s \in Initialized(init_calls) :
        s \notin Range(shutdown_calls) => running[s] = "True"

\* C19 (Spec): after ZMQManager.shutdown(), called between messages (so
\* also while the loop is suspended in recv), the loop calls handle no
\* more: no _execute runs and no handled, success, error or completion
\* callback is invoked.
C19_NoEventAfterShutdown ==
    [][(ZMQ \in Range(shutdown_calls)) => (trace' = trace)]_vars

\* C20 (Spec): shutdown does not take effect inside a message: from the
\* moment recv() has returned the message to the loop until the traversal
\* has completed or failed, no running flag is cleared and the socket is
\* not closed; the loop reads the flag only with no traversal in progress.
C20_ShutdownBetweenMessages ==
    [][/\ stack # << >> =>
            /\ running' = running
            /\ socket' = socket
            /\ shutdowns' = shutdowns
       /\ (task = "handling" /\ task' # "handling") => stack' = << >>]_vars

\* shutdown came after one message had gone through and while the next was
\* buffered
C20_Witness ==
    /\ shutdowns = 1
    /\ received = 1
    /\ Done(1)
    /\ Len(published) = 2
    /\ running[ZMQ] = "False"

\* C21 (Spec): there are no retries: for every received message and every
\* stage, _execute of the stage is invoked at most once for the message.
C21_NoRetry ==
    \A n \in 1..received : \A s \in Stages :
        Len(CallsOf(n, s, "execute")) <= 1

\* a message failed at the last stage, after every stage had run once
C21_Witness ==
    /\ Len(domains) = 4
    /\ received = 1
    /\ Done(1)
    /\ FailedAt(1, EXPORTER)
    /\ \A s \in Stages : Len(CallsOf(1, s, "execute")) = 1

\* C22 (Spec): after Orchestrator.initialize the wiring is a linear chain:
\* the handled callbacks of stage i are the handle of stage i+1 and nothing
\* else, the terminal stage's only handled callback is
\* Monitor.on_pipeline_complete, and every stage has Monitor.on_success and
\* Monitor.on_error registered exactly once.
C22_LinearChain ==
    orch # "constructed" =>
        \A i \in 1..Len(domains) :
            /\ callbacks[domains[i]] =
                    IF i < Len(domains) THEN <<HandleOf(domains[i + 1])>>
                    ELSE <<MonitorOnPipelineComplete>>
            /\ success_callbacks[domains[i]] = <<MonitorOnSuccess>>
            /\ error_callbacks[domains[i]] = <<MonitorOnError>>

\* the four-stage list is wired and initialized
C22_Witness ==
    /\ orch = "initialized"
    /\ Len(domains) = 4
    /\ callbacks[METRICS] = <<HandleOf(EXPORTER)>>

\* C23 (SpecUnit): on_handled, on_success and on_error each append the
\* callback to their own list and leave the other two lists alone, without
\* de-duplication; a call of handle invokes the callbacks of a list in
\* registration order, one registered n times n times.
C23_RegistrationAppends ==
    [][LET s == domains[1]
           Appended(list) ==
                \E m \in Mocks : list'[s] = Append(list[s], Mock(m))
           InOrder ==
                (/\ CallOver
                 /\ ~HasRaising(callbacks[s])
                 /\ ~HasRaising(success_callbacks[s])
                 /\ ~HasRaising(error_callbacks[s]))
                => /\ CallbacksOf(CallsOf(caller.calls, s, "handled")) =
                        IF Execute(s, CallInput).raised
                        THEN << >> ELSE callbacks[s]
                   /\ CallbacksOf(CallsOf(caller.calls, s, "success")) =
                        IF Execute(s, CallInput).raised
                        THEN << >> ELSE success_callbacks[s]
                   /\ CallbacksOf(CallsOf(caller.calls, s, "error")) =
                        IF Execute(s, CallInput).raised
                        THEN error_callbacks[s] ELSE << >>
       IN /\ Registrations' # Registrations =>
                \/ /\ Appended(callbacks)
                   /\ UNCHANGED <<success_callbacks, error_callbacks>>
                \/ /\ Appended(success_callbacks)
                   /\ UNCHANGED <<callbacks, error_callbacks>>
                \/ /\ Appended(error_callbacks)
                   /\ UNCHANGED <<callbacks, success_callbacks>>
          /\ InOrder']_vars

\* one mock registered twice for handled, after another, was invoked twice
C23_Witness ==
    LET s == domains[1]
    IN /\ CallOver
       /\ callbacks[s] = <<Mock(2), Mock(1), Mock(1)>>
       /\ CallbacksOf(CallsOf(caller.calls, s, "handled")) =
            <<Mock(2), Mock(1), Mock(1)>>

\* C24 (Spec): after k well-formed messages have been received and fully
\* processed by the initialized four-stage pipeline, the success count under
\* each of the four "<class>.handle" keys is at least k, exactly k between
\* traversals, and the exporter holds the data of the last of them.
C24_SuccessCounts ==
    LET wellformed == {n \in 1..received : published[n].enc = "json" /\ Done(n)}
        k == Cardinality(wellformed)
        last == CHOOSE n \in wellformed : \A m \in wellformed : m <= n
    IN (/\ Len(domains) = 4
        /\ failing_execute = {}
        /\ orch = "initialized")
       => /\ \A s \in Stages :
                /\ Get(monitor.success_counts, ClassName[s] \o ".handle", 0) >= k
                /\ stack = << >> =>
                    Get(monitor.success_counts, ClassName[s] \o ".handle", 0) = k
          /\ (k >= 1 /\ stack = << >>) =>
                exported_data = Val("metrics", "doc", published[last].v)

\* two well-formed messages with different documents have gone through
C24_Witness ==
    /\ Len(domains) = 4
    /\ failing_execute = {}
    /\ received = 2
    /\ Done(2)
    /\ published[1].enc = "json"
    /\ published[2].enc = "json"
    /\ published[1] # published[2]
    /\ Get(monitor.success_counts, "ExporterManager.handle", 0) = 2

\* C26 (SpecLifecycle): initialize() of a stage has returned before any
\* handle call on the stage: the receive loop never passes a message to a
\* stage that Orchestrator.initialize has not initialized.
C26_InitializeBeforeHandle ==
    \A i \in 1..Len(trace) :
        trace[i].list = "execute" => trace[i].stage \in Initialized(init_calls)

\* C25 (SpecApp): the Application calls Orchestrator.shutdown() exactly once
\* per run, however many signals are delivered and however their handlers
\* interleave with the wait loop of main.
C25_ShutdownOnce ==
    /\ shutdowns <= 1
    /\ app.main = "exited" => shutdowns = 1

\* a call is over and handed an instance to its caller
Returned(t) == threads[t].pc = "done" /\ threads[t].raised = NoExc

\* C27 (SpecFactory): threads calling get_symbol_map together from the reset
\* state, with or without data: SymbolMap is constructed exactly once and
\* every call that returns yields that one instance.
C27_ConstructedOnce ==
    /\ Len(heap) <= 1
    /\ \A t \in Threads :
            Returned(t) => (Len(heap) = 1 /\ threads[t].result = 1)

\* both calls are over, both found the holder empty at the first check, one
\* of them constructed the instance
C27_Witness ==
    /\ \A t \in Threads : Returned(t) /\ threads[t].seen = NoInstance
    /\ \E t \in Threads : threads[t].created = NoInstance
    /\ \E t \in Threads : threads[t].created # NoInstance

\* C28 (SpecFactory): get_symbol_map(data) with data other than None never
\* silently returns a singleton initialised with different data, whether the
\* callers come one after the other or together: such a call raises
\* ValueError.
C28_NoSilentMismatch ==
    \A t \in Threads :
        (Returned(t) /\ threads[t].data # "None")
            => heap[threads[t].result].data = threads[t].data

\* C29 (SpecGuarded): concurrent ThreadSafeSymbolMap(...) instantiations all
\* return the same instance, and the data the first initialisation stored is
\* never replaced by a later or concurrent instantiation.
C29_DataPreserved ==
    [][/\ \A t \in Threads :
            threads'[t].pc = "done" => threads'[t].result = 1
       /\ \A o \in DOMAIN heap :
            heap[o].data # "unset" => heap'[o].data = heap[o].data]_vars

\* C30 (SpecNew): the lock-free SymbolMap creates an instance only in a call
\* whose check found none, each such call creates one, and every call hands
\* back an instance; two calls that both pass the check before either has
\* assigned leave two distinct live instances.
C30_RaceOnCheck ==
    /\ \A t \in Threads :
            /\ threads[t].created # NoInstance => threads[t].seen = NoInstance
            /\ threads[t].pc = "done" => threads[t].result \in 1..Len(heap)
    /\ Len(heap) = Cardinality({t \in Threads : threads[t].created # NoInstance})

\* two calls are over and handed back two different instances
C30_Witness ==
    \E t, u \in Threads :
        /\ threads[t].pc = "done"
        /\ threads[u].pc = "done"
        /\ threads[t].result # threads[u].result

\* C31 (SpecSnapshot): Monitor.on_pipeline_complete logs a metrics snapshot on
\* exactly the invocations that bring the total count to a multiple of 5 (the
\* 5th, the 10th, ...), whatever the results were, and on no other invocation;
\* no other handler of the Monitor logs one.
C31_SnapshotEveryFifth ==
    [][IF monitor'.count # monitor.count
       THEN monitor'.logged =
                monitor.logged + (IF monitor'.count % 5 = 0 THEN 1 ELSE 0)
       ELSE monitor'.logged = monitor.logged]_vars

\* the 10th invocation is over, results of both kinds were counted, and two
\* snapshots were logged
C31_Witness ==
    /\ monitor.count = 10
    /\ monitor.logged = 2
    /\ monitor.completed_pipelines > 0
    /\ monitor.not_completed_pipelines > 0

\* C32 (SpecMonitor): after any sequence of on_success and on_error calls the
\* error count of every key is the sum of that key's counts per error kind; a
\* step that records an error changes no success counter and no sample
\* window, a step that records a success changes no error counter; and no
\* counter ever decreases.
C32_CountersConsistent ==
    [][LET NonDecreasing(f, g) ==
               \A k \in DOMAIN f : k \in DOMAIN g /\ g[k] >= f[k]
       IN
       /\ DOMAIN monitor'.error_types = DOMAIN monitor'.error_counts
       /\ \A k \in DOMAIN monitor'.error_counts :
               monitor'.error_counts[k] =
                   SumOver(monitor'.error_types[k],
                           DOMAIN monitor'.error_types[k])
       /\ (monitor'.error_counts # monitor.error_counts)
               => /\ monitor'.success_counts = monitor.success_counts
                  /\ monitor'.success_durations = monitor.success_durations
       /\ (monitor'.success_counts # monitor.success_counts)
               => /\ monitor'.error_counts = monitor.error_counts
                  /\ monitor'.error_types = monitor.error_types
       /\ NonDecreasing(monitor.success_counts, monitor'.success_counts)
       /\ NonDecreasing(monitor.error_counts, monitor'.error_counts)
       /\ \A k \in DOMAIN monitor.error_types :
               NonDecreasing(monitor.error_types[k], monitor'.error_types[k])
       /\ monitor'.count >= monitor.count
       /\ monitor'.completed_pipelines >= monitor.completed_pipelines
       /\ monitor'.not_completed_pipelines
               >= monitor.not_completed_pipelines]_vars

\* one key has two errors, of two kinds, and a success was recorded as well
C32_Witness ==
    /\ \E k \in DOMAIN monitor.error_types :
            /\ monitor.error_counts[k] = 2
            /\ Cardinality(DOMAIN monitor.error_types[k]) = 2
    /\ DOMAIN monitor.success_counts # {}

\* C33 (SpecWindow): in every reachable state of the Monitor, the window of
\* every key is as long as the smaller of the key's success count and 1000,
\* and it holds the most recent durations of the key in their order of
\* arrival (the n-th event of a key lasts n ticks).
C33_WindowIsRecentSuffix ==
    /\ DOMAIN monitor.success_durations = DOMAIN monitor.success_counts
    /\ \A key \in DOMAIN monitor.success_counts :
        LET n == monitor.success_counts[key]
            w == monitor.success_durations[key]
        IN /\ Len(w) = IF n < 1000 THEN n ELSE 1000
           /\ \A i \in 1..Len(w) : w[i] = n - Len(w) + i

\* one key has seen more events than its window holds, another fewer
C33_Witness ==
    /\ Fed(ZMQ) = 1001
    /\ Fed(PROCESSOR) = 1
    /\ Len(monitor.success_durations["ZMQManager.handle"]) = 1000
    /\ Len(monitor.success_durations["ProcessorManager.handle"]) = 1

\* C34 (Spec): in the four-stage pipeline ExporterManager's output is always
\* True, so Monitor.on_pipeline_complete is called with a true result only:
\* in every reachable state not_completed_pipelines is 0 and count equals
\* completed_pipelines.
C34_OnlyCompleted ==
    Len(domains) = 4 =>
        /\ monitor.not_completed_pipelines = 0
        /\ monitor.count = monitor.completed_pipelines
        /\ \A i \in 1..Len(trace) :
                trace[i].cb = MonitorOnPipelineComplete => trace[i].arg = True

\* two messages went through the four stages and were counted
C34_Witness ==
    /\ Len(domains) = 4
    /\ monitor.count = 2
    /\ monitor.completed_pipelines = 2

\* C35 (Spec): a stage emits its success event for a message only after every
\* downstream stage has emitted its own for that message; and whenever no
\* message is in flight, the success counts of all the stages of the pipeline
\* are equal to each other and to completed_pipelines, however many messages
\* failed.
C35_SuccessAllOrNothing ==
    /\ \A i \in 1..Len(trace) :
            trace[i].list = "success" =>
                \A d \in InPipeline(domains) :
                    Pos(d) > Pos(trace[i].stage) =>
                        \E j \in 1..(i - 1) :
                            /\ trace[j].msg = trace[i].msg
                            /\ trace[j].stage = d
                            /\ trace[j].list = "success"
    /\ stack = << >> =>
            \A s \in InPipeline(domains) :
                Fed(s) = monitor.completed_pipelines

\* the four-stage pipeline is idle after one message that went through and
\* one that failed
C35_Witness ==
    /\ Len(domains) = 4
    /\ stack = << >>
    /\ monitor.completed_pipelines = 1
    /\ Fed(ZMQ) = 1
    /\ DOMAIN monitor.error_counts # {}

\* C36 (Spec): within the traversal of one message, a stage awaits its
\* handled callbacks (the next stage) before it emits its own success event;
\* so for a message that went through every stage the Monitor sees the
\* completion event first and then the success events in reverse pipeline
\* order, the last stage's first and the ingress's last.
C36_ReverseOrder ==
    /\ \A i \in 1..Len(trace) :
            (trace[i].list = "success" /\ callbacks[trace[i].stage] # << >>) =>
                \E j \in 1..(i - 1) :
                    /\ trace[j].msg = trace[i].msg
                    /\ trace[j].stage = trace[i].stage
                    /\ trace[j].list = "handled"
    /\ \A n \in 1..received :
            (Done(n) /\ AllSucceeded(n)) =>
                LET Test(e) == e.msg = n /\ e.cb.kind \in
                        {"on_success", "on_error", "on_pipeline_complete"}
                    seen == SelectSeq(trace, Test)
                    L == Len(domains)
                IN /\ Len(seen) = L + 1
                   /\ seen[1].cb.kind = "on_pipeline_complete"
                   /\ seen[1].stage = domains[L]
                   /\ \A k \in 1..L :
                        /\ seen[k + 1].cb.kind = "on_success"
                        /\ seen[k + 1].stage = domains[L + 1 - k]

\* a message has gone through the four stages
C36_Witness ==
    /\ Len(domains) = 4
    /\ \E n \in 1..received : Done(n) /\ AllSucceeded(n)

\* C37 (Spec): when _execute fails for a message at the i-th stage, the
\* exception travels back through the handled callback of every stage before
\* it: the Monitor's calls for that message are exactly i error events, from
\* stage i, i-1, ..., 1 in that order, each naming the class of the exception
\* _execute raised, and no success or completion event.
C37_ErrorCascade ==
    \A n \in 1..received : \A s \in InPipeline(domains) :
        (Done(n) /\ FailedAt(n, s)) =>
            LET Test(e) == e.msg = n /\ e.cb.kind \in
                    {"on_success", "on_error", "on_pipeline_complete"}
                seen == SelectSeq(trace, Test)
                failed == CallsOf(n, s, "execute")[1]
            IN /\ Len(seen) = Pos(s)
               /\ \A k \in 1..Pos(s) :
                    /\ seen[k].cb.kind = "on_error"
                    /\ seen[k].stage = domains[Pos(s) + 1 - k]
                    /\ seen[k].arg.error_type = Execute(s, failed.arg).exc

\* a message failed at the last of the four stages and its traversal is over
C37_Witness ==
    /\ Len(domains) = 4
    /\ \E n \in 1..received : Done(n) /\ FailedAt(n, EXPORTER)

C39_AlwaysAnInstance ==
    \A t \in Threads :
        threads[t].pc = "done" =>
            /\ threads[t].raised # "AttributeError"
            /\ threads[t].raised = NoExc => threads[t].result \in 1..Len(heap)

====
